---- MODULE Spec2Model ----
(***************************************************************************)
(* Model of the uninformed grid-search engine of the search visualizer:    *)
(* components.py (Grid, Node, GridGUI) and algorithms.py                   *)
(* (UninformedSearch). One engine is constructed on one grid and run() is  *)
(* executed on it, one loop step at a time: directly (Spec, FairSpec,      *)
(* ConstructSpec, and UniformCostSpec for uniform-cost search on grids     *)
(* with several weights) or on the worker thread of the graphical mode,    *)
(* next to the click handler of the main thread (GuiSpec). UpdateSpec has  *)
(* a caller of the update operations of an engine.                         *)
(***************************************************************************)
EXTENDS Integers, Sequences, FiniteSets, TLC

(***************************************************************************)
(* Bounds of the model and constants of the program.                       *)
(***************************************************************************)
\* grids of Width x Height cells are enumerated
Width == 3
Height == 2
\* depth limits 0..MaxDepthArg are supplied to the constructor
MaxDepthArg == 2
\* a supplied depth limit above the cap exceeds it by this much
OverCap == 1
\* callers of the update operations fill the frontier up to MaxPuts entries
MaxPuts == 2
\* on_canvas_click takes up at most MaxClicks clicks
MaxClicks == 4
\* the cap on the depth limit (algorithms.py:116, algorithms.py:234)
MAX_DEPTH == 100
\* the step cost of a weighted cell, as in the default grid (constants.py:62)
INCREASED_COST == 5

(***************************************************************************)
(* Python values.                                                          *)
(***************************************************************************)
\* Optional values: None is the empty tuple, a present value v is <<v>>
None == <<>>
Some(v) == <<v>>

Min(a, b) == IF a < b THEN a ELSE b

Reverse(seq) == [i \in 1..Len(seq) |-> seq[Len(seq) + 1 - i]]

RemoveAt(seq, i) == [j \in 1..(Len(seq) - 1) |-> IF j < i THEN seq[j] ELSE seq[j + 1]]

(***************************************************************************)
(* components.py                                                           *)
(***************************************************************************)
\* @dataclass Node: state, parent, cost = 0, depth = 0
Node(state, parent, cost, depth) ==
    [state |-> state, parent |-> parent, cost |-> cost, depth |-> depth]

\* @dataclass Grid
Grid(width, height, start, goal, barriers, increased_cost_cells) ==
    [width |-> width, height |-> height, start |-> start, goal |-> goal,
     barriers |-> barriers, increased_cost_cells |-> increased_cost_cells]

\* Grid.is_goal_state
is_goal_state(grid, node) == node.state = grid.goal

\* the directions with right before up
directions_right_first == << <<1, 0>>, <<0, -1>>, <<0, 1>>, <<-1, 0>> >>

\* the directions of Grid.get_neighbors: up, right, down, left
directions == << <<0, -1>>, <<1, 0>>, <<0, 1>>, <<-1, 0>> >>

\* increased_cost_cells.get(cell, 1)
StepCost(grid, cell) ==
    IF cell \in DOMAIN grid.increased_cost_cells
    THEN grid.increased_cost_cells[cell]
    ELSE 1

\* get_neighbors without the barrier test
get_neighbors_through_barriers(grid, node) ==
    LET x == node.state[1]
        y == node.state[2]
        adjacent == [i \in 1..Len(directions) |->
                        <<x + directions[i][1], y + directions[i][2]>>]
        Allowed(cell) ==
            /\ 0 <= cell[1] /\ cell[1] < grid.width
            /\ 0 <= cell[2] /\ cell[2] < grid.height
        kept == SelectSeq(adjacent, Allowed)
    IN  [i \in 1..Len(kept) |->
            Node(kept[i], Some(node), node.cost + StepCost(grid, kept[i]), 0)]

\* get_neighbors with the step cost alone as the cost of a neighbor
get_neighbors_step_cost(grid, node) ==
    LET x == node.state[1]
        y == node.state[2]
        adjacent == [i \in 1..Len(directions) |->
                        <<x + directions[i][1], y + directions[i][2]>>]
        Allowed(cell) ==
            /\ 0 <= cell[1] /\ cell[1] < grid.width
            /\ 0 <= cell[2] /\ cell[2] < grid.height
            /\ cell \notin grid.barriers
        kept == SelectSeq(adjacent, Allowed)
    IN  [i \in 1..Len(kept) |->
            Node(kept[i], Some(node), StepCost(grid, kept[i]), 0)]

\* Grid.get_neighbors: the in-bounds non-barrier adjacent cells, in the order
\* of directions, each with parent node and cost node.cost + step cost
get_neighbors(grid, node) ==
    LET x == node.state[1]
        y == node.state[2]
        adjacent == [i \in 1..Len(directions) |->
                        <<x + directions[i][1], y + directions[i][2]>>]
        Allowed(cell) ==
            /\ 0 <= cell[1] /\ cell[1] < grid.width
            /\ 0 <= cell[2] /\ cell[2] < grid.height
            /\ cell \notin grid.barriers
        kept == SelectSeq(adjacent, Allowed)
    IN  [i \in 1..Len(kept) |->
            Node(kept[i], Some(node), node.cost + StepCost(grid, kept[i]), 0)]

\* the comparison of entries with the order of the costs reversed
EntryGreater(a, b) ==
    \/ a[1] > b[1]
    \/ /\ a[1] = b[1]
       /\ a[2].state # b[2].state
       /\ a[2].cost > b[2].cost

\* Node.__lt__ applied to two entries (cost, node) of the PriorityQueue:
\* tuples compare by cost first, and on a tie by the nodes (Node.__eq__ by
\* state, Node.__lt__ by cost)
EntryLess(a, b) ==
    \/ a[1] < b[1]
    \/ /\ a[1] = b[1]
       /\ a[2].state # b[2].state
       /\ a[2].cost < b[2].cost

(***************************************************************************)
(* algorithms.py                                                           *)
(***************************************************************************)
Strategies == {"DepthFirstSearch", "DepthLimitedSearch", "BreadthFirstSearch",
               "UniformCostSearch", "IterativeDeepeningSearch"}

\* frontier_type_map with the Queue of breadth-first search replaced by a LifoQueue
frontier_type_map_lifo(strategy) ==
    CASE strategy = "UniformCostSearch" -> "PriorityQueue"
      [] OTHER -> "LifoQueue"

\* frontier_type_map with a Queue for depth-limited search, and so for
\* iterative deepening
frontier_type_map_limited_fifo(strategy) ==
    CASE strategy = "DepthFirstSearch" -> "LifoQueue"
      [] strategy = "DepthLimitedSearch" -> "Queue"
      [] strategy = "BreadthFirstSearch" -> "Queue"
      [] strategy = "UniformCostSearch" -> "PriorityQueue"
      [] strategy = "IterativeDeepeningSearch" -> "Queue"

\* frontier_type_map with a Queue for uniform-cost search
frontier_type_map_uniform_fifo(strategy) ==
    CASE strategy = "DepthFirstSearch" -> "LifoQueue"
      [] strategy = "DepthLimitedSearch" -> "LifoQueue"
      [] strategy = "BreadthFirstSearch" -> "Queue"
      [] strategy = "UniformCostSearch" -> "Queue"
      [] strategy = "IterativeDeepeningSearch" -> "LifoQueue"

\* UninformedSearch.frontier_type_map
frontier_type_map(strategy) ==
    CASE strategy = "DepthFirstSearch" -> "LifoQueue"
      [] strategy = "DepthLimitedSearch" -> "LifoQueue"
      [] strategy = "BreadthFirstSearch" -> "Queue"
      [] strategy = "UniformCostSearch" -> "PriorityQueue"
      [] strategy = "IterativeDeepeningSearch" -> "LifoQueue"

\* a freshly constructed queue of the given class
NewFrontier(type) == [type |-> type, queue |-> <<>>]

\* the depth limit taken as supplied, without min(depth_limit, 100)
ClampDepthLimitUnbounded(depth_limit) ==
    IF depth_limit # None /\ depth_limit[1] # 0
    THEN Some(depth_limit[1])
    ELSE None

\* min(depth_limit, 100) if depth_limit else None
ClampDepthLimit(depth_limit) ==
    IF depth_limit # None /\ depth_limit[1] # 0
    THEN Some(Min(depth_limit[1], MAX_DEPTH))
    ELSE None

\* UninformedSearch.__init__
UninformedSearch(grid, strategy, depth_limit) ==
    [grid |-> grid,
     strategy |-> strategy,
     start_node |-> Node(grid.start, None, 0, 0),
     frontier |-> NewFrontier(frontier_type_map(strategy)),
     frontier_set |-> {},
     explored |-> {},
     path |-> <<>>,
     final_cost |-> 0,
     depth_limit |-> ClampDepthLimit(depth_limit),
     depth_limit_hit |-> FALSE]

\* UninformedSearch._reconstruct_path: the states from the given node back
\* along the parent links, then reversed
RECURSIVE WalkParents(_)
WalkParents(current_node) ==
    IF current_node.parent = None
    THEN <<current_node.state>>
    ELSE <<current_node.state>> \o WalkParents(current_node.parent[1])

reconstruct_path(current_node) == Reverse(WalkParents(current_node))

\* UninformedSearch._update_priority_queue
update_priority_queue(self, cost, node) ==
    IF node.state \notin self.frontier_set
    THEN [self EXCEPT !.frontier.queue = Append(@, <<cost, node>>),
                      !.frontier_set = @ \cup {node.state}]
    ELSE self

\* UninformedSearch.update_frontier, called without a cost
update_frontier(self, node) ==
    IF self.frontier.type = "PriorityQueue"
    THEN update_priority_queue(self, node.cost, node)
    ELSE [self EXCEPT !.frontier.queue = Append(@, node),
                      !.frontier_set = @ \cup {node.state}]

\* the node of a frontier entry: (cost, node) in a PriorityQueue, else the node
EntryNode(frontier, entry) ==
    IF frontier.type = "PriorityQueue" THEN entry[2] ELSE entry

\* frontier.get(): the positions get() may return. LifoQueue: the last put;
\* Queue: the first put; PriorityQueue: an entry no other entry is less than
\* (which of several such entries the heap returns is left open)
GetChoices(frontier) ==
    CASE frontier.type = "LifoQueue" -> {Len(frontier.queue)}
      [] frontier.type = "Queue" -> {1}
      [] frontier.type = "PriorityQueue" ->
            {i \in 1..Len(frontier.queue) :
                \A j \in 1..Len(frontier.queue) :
                    ~EntryLess(frontier.queue[j], frontier.queue[i])}

\* the depth-limit test of search on a popped node
DepthLimitReached(self, current_node) ==
    self.depth_limit # None /\ current_node.depth >= self.depth_limit[1]

\* the pass of the while loop with depth_limit_hit left unset at the depth limit
PopStepLeavesFlag(self, i) ==
    LET current_node == EntryNode(self.frontier, self.frontier.queue[i])
        popped == [self EXCEPT !.frontier.queue = RemoveAt(@, i),
                               !.frontier_set = @ \ {current_node.state}]
    IN  IF is_goal_state(self.grid, current_node)
        THEN [self |-> [popped EXCEPT !.path = reconstruct_path(current_node),
                                      !.final_cost = current_node.cost],
              current_node |-> current_node, next |-> "return"]
        ELSE IF DepthLimitReached(self, current_node)
        THEN [self |-> [popped EXCEPT !.final_cost = current_node.cost],
              current_node |-> current_node, next |-> "return"]
        ELSE [self |-> [popped EXCEPT !.explored = @ \cup {current_node.state}],
              current_node |-> current_node, next |-> "expand"]

\* the pass of the while loop with the path stored goal first, not reversed
PopStepPathBackward(self, i) ==
    LET current_node == EntryNode(self.frontier, self.frontier.queue[i])
        popped == [self EXCEPT !.frontier.queue = RemoveAt(@, i),
                               !.frontier_set = @ \ {current_node.state}]
    IN  IF is_goal_state(self.grid, current_node)
        THEN [self |-> [popped EXCEPT !.path = WalkParents(current_node),
                                      !.final_cost = current_node.cost],
              current_node |-> current_node, next |-> "return"]
        ELSE IF DepthLimitReached(self, current_node)
        THEN [self |-> [popped EXCEPT !.depth_limit_hit = TRUE,
                                      !.final_cost = current_node.cost],
              current_node |-> current_node, next |-> "return"]
        ELSE [self |-> [popped EXCEPT !.explored = @ \cup {current_node.state}],
              current_node |-> current_node, next |-> "expand"]

\* the pass of the while loop with the depth-limit test before the goal test
PopStepDepthTestFirst(self, i) ==
    LET current_node == EntryNode(self.frontier, self.frontier.queue[i])
        popped == [self EXCEPT !.frontier.queue = RemoveAt(@, i),
                               !.frontier_set = @ \ {current_node.state}]
    IN  IF DepthLimitReached(self, current_node)
        THEN [self |-> [popped EXCEPT !.depth_limit_hit = TRUE,
                                      !.final_cost = current_node.cost],
              current_node |-> current_node, next |-> "return"]
        ELSE IF is_goal_state(self.grid, current_node)
        THEN [self |-> [popped EXCEPT !.path = reconstruct_path(current_node),
                                      !.final_cost = current_node.cost],
              current_node |-> current_node, next |-> "return"]
        ELSE [self |-> [popped EXCEPT !.explored = @ \cup {current_node.state}],
              current_node |-> current_node, next |-> "expand"]

\* search, one pass of the while loop up to the for loop: get() of entry i,
\* removal from frontier_set, goal test, depth-limit test, explored.add
PopStep(self, i) ==
    LET current_node == EntryNode(self.frontier, self.frontier.queue[i])
        popped == [self EXCEPT !.frontier.queue = RemoveAt(@, i),
                               !.frontier_set = @ \ {current_node.state}]
    IN  IF is_goal_state(self.grid, current_node)
        THEN [self |-> [popped EXCEPT !.path = reconstruct_path(current_node),
                                      !.final_cost = current_node.cost],
              current_node |-> current_node, next |-> "return"]
        ELSE IF DepthLimitReached(self, current_node)
        THEN [self |-> [popped EXCEPT !.depth_limit_hit = TRUE,
                                      !.final_cost = current_node.cost],
              current_node |-> current_node, next |-> "return"]
        ELSE [self |-> [popped EXCEPT !.explored = @ \cup {current_node.state}],
              current_node |-> current_node, next |-> "expand"]

\* the body of the for loop without the test of frontier_set
NeighborStepIgnoresPending(self, current_node, neighbor) ==
    LET new_neighbor ==
            IF self.depth_limit # None
            THEN Node(neighbor.state, Some(current_node), neighbor.cost,
                      current_node.depth + 1)
            ELSE neighbor
    IN  IF new_neighbor.state \notin self.explored
        THEN update_frontier(self, new_neighbor)
        ELSE self

\* the body of the for loop with the rebuilt node costed as one unit step
NeighborStepUnitCost(self, current_node, neighbor) ==
    LET new_neighbor ==
            IF self.depth_limit # None
            THEN Node(neighbor.state, Some(current_node), current_node.cost + 1,
                      current_node.depth + 1)
            ELSE neighbor
    IN  IF /\ new_neighbor.state \notin self.explored
           /\ new_neighbor.state \notin self.frontier_set
        THEN update_frontier(self, new_neighbor)
        ELSE self

\* search, the body of the for loop over the neighbors of current_node
NeighborStep(self, current_node, neighbor) ==
    LET new_neighbor ==
            IF self.depth_limit # None
            THEN Node(neighbor.state, Some(current_node), neighbor.cost,
                      current_node.depth + 1)
            ELSE neighbor
    IN  IF /\ new_neighbor.state \notin self.explored
           /\ new_neighbor.state \notin self.frontier_set
        THEN update_frontier(self, new_neighbor)
        ELSE self

\* the test of the while loop with the last depth left out
DeepeningContinuesBelow(d, max_d) == d < max_d

\* iterative_deepening_search, the test of the while loop
DeepeningContinues(d, max_d) == d <= max_d

\* the resets without frontier_set.clear()
ResetForDepthKeepsMembership(self, depth) ==
    [self EXCEPT !.depth_limit = Some(depth),
                 !.frontier = NewFrontier(frontier_type_map("IterativeDeepeningSearch")),
                 !.explored = {},
                 !.path = <<>>,
                 !.final_cost = 0,
                 !.depth_limit_hit = FALSE]

\* the resets without explored.clear()
ResetForDepthKeepsExplored(self, depth) ==
    [self EXCEPT !.depth_limit = Some(depth),
                 !.frontier = NewFrontier(frontier_type_map("IterativeDeepeningSearch")),
                 !.frontier_set = {},
                 !.path = <<>>,
                 !.final_cost = 0,
                 !.depth_limit_hit = FALSE]

\* the resets without depth_limit_hit = False
ResetForDepthKeepsFlag(self, depth) ==
    [self EXCEPT !.depth_limit = Some(depth),
                 !.frontier = NewFrontier(frontier_type_map("IterativeDeepeningSearch")),
                 !.frontier_set = {},
                 !.explored = {},
                 !.path = <<>>,
                 !.final_cost = 0]

\* iterative_deepening_search, the resets at the top of the while loop
ResetForDepth(self, depth) ==
    [self EXCEPT !.depth_limit = Some(depth),
                 !.frontier = NewFrontier(frontier_type_map("IterativeDeepeningSearch")),
                 !.frontier_set = {},
                 !.explored = {},
                 !.path = <<>>,
                 !.final_cost = 0,
                 !.depth_limit_hit = FALSE]

\* search, the whole for loop over the given neighbors of current_node
RECURSIVE ExpandAll(_, _, _)
ExpandAll(self, current_node, nbrs) ==
    IF nbrs = <<>>
    THEN self
    ELSE ExpandAll(NeighborStep(self, current_node, Head(nbrs)), current_node, Tail(nbrs))

\* search, the while loop run to its end (with the first of the entries that
\* get() may return)
RECURSIVE SearchLoop(_)
SearchLoop(self) ==
    IF self.frontier.queue = <<>>
    THEN self
    ELSE LET i == CHOOSE i \in GetChoices(self.frontier) : TRUE
             r == PopStep(self, i)
         IN  IF r.next = "expand"
             THEN SearchLoop(ExpandAll(r.self, r.current_node,
                                       get_neighbors(self.grid, r.current_node)))
             ELSE r.self

\* search, as a whole, on an engine as constructed
SearchResult(self) == SearchLoop(update_frontier(self, self.start_node))

(***************************************************************************)
(* Arguments of any class, as callers may pass them: an object is its      *)
(* class and its value. The value of a Grid or Node object is the one      *)
(* record, of an Enum member its name, of an int or bool the number, of a  *)
(* float the whole number it equals, of a str its text, of None nothing.   *)
(***************************************************************************)
PyObject(class, value) == [class |-> class, value |-> value]

\* isinstance(obj, cls): bool is a subclass of int
isinstance(obj, cls) ==
    \/ obj.class = cls
    \/ cls = "int" /\ obj.class = "bool"

\* the truth value of an object: None is false, a number is true unless
\* zero, a str is true unless empty; a Node (a dataclass without __bool__
\* and __len__) is true
Truthy(obj) ==
    CASE obj.class = "NoneType" -> FALSE
      [] obj.class \in {"int", "bool", "float"} -> obj.value # 0
      [] obj.class = "str" -> obj.value # ""
      [] OTHER -> TRUE

\* the outcome of a call: the exception it raised, if any, and the engine
\* after it (no engine when the constructor raised)
Raised(type, self) == [raised |-> Some(type), self |-> self]

Returned(self) == [raised |-> None, self |-> self]

\* `strategy not in UninformedSearchStrategy`: a member is contained; a
\* member of another enumeration is not; for an object that is no Enum member
\* the test is False or raises TypeError, by the interpreter's version
StrategyTest(strategy) ==
    CASE strategy.class = "UninformedSearchStrategy" -> {"in"}
      [] strategy.class = "InformedSearchStrategy" -> {"not in"}
      [] OTHER -> {"not in", "TypeError"}

\* __init__ without the isinstance test of grid: a grid that is no Grid
\* fails at self.grid.start
UninformedSearchInitNoGridTest(grid, strategy, depth_limit) ==
    {CASE test = "TypeError" -> Raised("TypeError", None)
       [] test = "not in" -> Raised("ValueError", None)
       [] test = "in" ->
            IF ~isinstance(grid, "Grid")
            THEN Raised("AttributeError", None)
            ELSE Returned(Some(UninformedSearch(grid.value[1], strategy.value, depth_limit)))
     : test \in StrategyTest(strategy)}

\* UninformedSearch.__init__ with its tests of the arguments: the outcomes
\* of constructing an engine from objects of any class
UninformedSearchInit(grid, strategy, depth_limit) ==
    IF ~isinstance(grid, "Grid")
    THEN {Raised("TypeError", None)}
    ELSE {CASE test = "TypeError" -> Raised("TypeError", None)
            [] test = "not in" -> Raised("ValueError", None)
            [] test = "in" ->
                 Returned(Some(UninformedSearch(grid.value[1], strategy.value, depth_limit)))
          : test \in StrategyTest(strategy)}

\* UninformedSearch._update_priority_queue with its tests of the arguments.
\* On a frontier of any class the entry put is the pair (cost, node).
UpdatePriorityQueueCall(self, cost, node) ==
    IF ~isinstance(cost, "int")
    THEN Raised("TypeError", self)
    ELSE IF ~isinstance(node, "Node")
    THEN Raised("TypeError", self)
    ELSE Returned(update_priority_queue(self, cost.value, node.value[1]))

\* UninformedSearch.update_frontier with its test of the node and a cost
\* argument (None when left out): a cost that is not true is replaced by
\* node.cost, and only a PriorityQueue frontier looks at the cost
UpdateFrontierCall(self, node, cost) ==
    IF ~isinstance(node, "Node")
    THEN Raised("TypeError", self)
    ELSE IF self.frontier.type = "PriorityQueue"
    THEN UpdatePriorityQueueCall(
            self,
            IF Truthy(cost) THEN cost ELSE PyObject("int", node.value[1].cost),
            node)
    ELSE Returned(update_frontier(self, node.value[1]))

(***************************************************************************)
(* The graphical sink: components.GridGUI.                                 *)
(***************************************************************************)
\* GridGUI.__init__: search_thread = None, click_event = Event(), not set
GridGUI == [search_thread |-> None, click_event |-> FALSE]

\* on_canvas_click starts a worker also when the one it started has finished
StartsWorkerUnlessAlive(gui, worker) ==
    gui.search_thread = None \/ worker = "finished"

\* on_canvas_click: `if self.search_thread is None`
StartsWorker(gui, worker) == gui.search_thread = None

\* search, the get() of a pass of the while loop alone
GetStep(self, i) ==
    [self |-> [self EXCEPT !.frontier.queue = RemoveAt(@, i)],
     current_node |-> EntryNode(self.frontier, self.frontier.queue[i])]

\* search, a pass of the while loop from the removal from frontier_set to
\* explored.add: what follows get() and the wait for a click
TestStep(self, current_node) ==
    LET popped == [self EXCEPT !.frontier_set = @ \ {current_node.state}]
    IN  IF is_goal_state(self.grid, current_node)
        THEN [self |-> [popped EXCEPT !.path = reconstruct_path(current_node),
                                      !.final_cost = current_node.cost],
              current_node |-> current_node, next |-> "return"]
        ELSE IF DepthLimitReached(self, current_node)
        THEN [self |-> [popped EXCEPT !.depth_limit_hit = TRUE,
                                      !.final_cost = current_node.cost],
              current_node |-> current_node, next |-> "return"]
        ELSE [self |-> [popped EXCEPT !.explored = @ \cup {current_node.state}],
              current_node |-> current_node, next |-> "expand"]

(***************************************************************************)
(* The state: the engine object, and the position and locals of run().     *)
(***************************************************************************)
VARIABLES
    search,           \* the UninformedSearch instance (self)
    depth_limit_arg,  \* the depth_limit argument the instance was built with
    pc,               \* the position of run() in the code
    current_node,     \* search: the node popped in this pass (None outside)
    neighbors,        \* search: the neighbors the for loop has yet to visit
    depth,            \* iterative_deepening_search: depth
    max_depth,        \* iterative_deepening_search: max_depth
    pops,             \* the nodes get() has returned in this call of search
    attempts,         \* the depth limits iterative deepening has called search with
    visualizer_method, \* self.visualizer_method: "Nothing" or "GUI"
    visualizer,       \* self.visualizer: None or the GridGUI
    handler,          \* the position of the main thread in on_canvas_click
    clicks,           \* the clicks on_canvas_click has taken up, with what each found
    released,         \* the number of times wait_for_click has returned
    call,             \* the last call made with argument objects of any class (None
                      \* when the engine was built and is run with well-typed ones)
    raised            \* the exception that call raised (None if it returned)

\* the graphical sink and what is recorded of it
gui_vars == <<visualizer_method, visualizer, handler, clicks, released>>

\* the calls on the engine's interface
api_vars == <<call, raised>>

vars == <<search, depth_limit_arg, pc, current_node, neighbors, depth, max_depth, pops,
          attempts, gui_vars, api_vars>>

(***************************************************************************)
(* The grids and constructor arguments that are enumerated.                *)
(***************************************************************************)
Cells == (0..(Width - 1)) \X (0..(Height - 1))

\* no barrier, one barrier cell as in the default grids, or a wall: a whole
\* column of barrier cells
BarrierSets ==
    {{}} \cup {{cell} : cell \in Cells}
         \cup {{cell \in Cells : cell[1] = x} : x \in 1..(Width - 1)}

\* no weighted cell, one weighted cell, or every cell weighted alike
CostMaps ==
    {<<>>} \cup {[cell \in {c} |-> INCREASED_COST] : c \in Cells}
           \cup {[cell \in Cells |-> INCREASED_COST]}

Grids ==
    {Grid(Width, Height, <<0, 0>>, goal, barriers, costs) :
        goal \in Cells, barriers \in BarrierSets, costs \in CostMaps}

\* constants.DEFAULT_GRID_BY_STRATEGY_MAP
DEFAULT_GRID_BY_STRATEGY_MAP(strategy) ==
    IF strategy = "UniformCostSearch"
    THEN Grid(5, 5, <<0, 0>>, <<4, 4>>, {<<2, 2>>}, (<<3, 3>> :> 5) @@ (<<2, 1>> :> 9))
    ELSE Grid(5, 5, <<0, 0>>, <<4, 4>>, {<<2, 2>>}, <<>>)

\* the depth_limit arguments: none for the strategies without a limit; none,
\* small limits, the cap and a limit above the cap for depth-limited search;
\* none and small limits for iterative deepening
DepthArgs(strategy) ==
    CASE strategy = "DepthLimitedSearch" ->
            {None} \cup {Some(l) : l \in 0..MaxDepthArg}
                   \cup {Some(MAX_DEPTH), Some(MAX_DEPTH + OverCap)}
      [] strategy = "IterativeDeepeningSearch" ->
            {None} \cup {Some(l) : l \in 1..MaxDepthArg}
      [] OTHER -> {None}

\* no graphical sink is attached: visualizer_method is Nothing, visualizer None
WithoutVisualizer ==
    /\ visualizer_method = "Nothing"
    /\ visualizer = None
    /\ handler = "mainloop"
    /\ clicks = <<>>
    /\ released = 0

\* a Grid and a member of UninformedSearchStrategy as argument objects
GridObject(grid) == PyObject("Grid", Some(grid))

StrategyObject(strategy) == PyObject("UninformedSearchStrategy", strategy)

\* the call of the constructor with the given argument objects
ConstructorCall(grid, strategy) ==
    [op |-> "__init__", args |-> <<grid, strategy>>]

\* an engine constructed on one of the given grids, run() not yet called
Constructed(grids) ==
    /\ \E grid \in grids, strategy \in Strategies :
          /\ depth_limit_arg \in DepthArgs(strategy)
          /\ search = UninformedSearch(grid, strategy, depth_limit_arg)
    /\ call = None
    /\ raised = None
    /\ WithoutVisualizer
    /\ pc = "run"
    /\ current_node = None
    /\ neighbors = <<>>
    /\ depth = 0
    /\ max_depth = 0
    /\ pops = <<>>
    /\ attempts = <<>>

\* the strategies that are also run on their default grid: those whose
\* frontier has a single entry for get() to return
DefaultStrategies == Strategies \ {"UniformCostSearch"}

\* an engine constructed as utils.run_search does for a strategy run on its
\* default grid: without a depth_limit argument
ConstructedDefault ==
    /\ \E strategy \in DefaultStrategies :
          search = UninformedSearch(DEFAULT_GRID_BY_STRATEGY_MAP(strategy), strategy, None)
    /\ call = None
    /\ raised = None
    /\ WithoutVisualizer
    /\ depth_limit_arg = None
    /\ pc = "run"
    /\ current_node = None
    /\ neighbors = <<>>
    /\ depth = 0
    /\ max_depth = 0
    /\ pops = <<>>
    /\ attempts = <<>>

Init == Constructed(Grids) \/ ConstructedDefault

\* the grids whose only weighted cell, if any, is the cell right of the start
FairGrids == {grid \in Grids : DOMAIN grid.increased_cost_cells \subseteq {<<1, 0>>}}

FairInit == Constructed(FairGrids)

\* an object that is None
PyNone == PyObject("NoneType", None)

\* the grid arguments: the grids, None, a tuple of the sizes, a str
GridArgs ==
    {GridObject(grid) : grid \in FairGrids}
        \cup {PyNone, PyObject("tuple", <<Width, Height>>), PyObject("str", "grid")}

\* the strategy arguments: the five strategies, a member of
\* InformedSearchStrategy, a str that is no strategy's value, None
StrategyArgs ==
    {StrategyObject(strategy) : strategy \in Strategies}
        \cup {PyObject("InformedSearchStrategy", "AStarSearch"),
               PyObject("str", "bogus"), PyNone}

\* the constructor has been called with arguments of any class: it raised, or
\* returned the engine, on which run() is then called
ConstructedFromObjects ==
    /\ \E grid \in GridArgs, strategy \in StrategyArgs :
          \E depth_limit \in (IF strategy.class = "UninformedSearchStrategy"
                               THEN DepthArgs(strategy.value)
                               ELSE {None}) :
              \E outcome \in UninformedSearchInit(grid, strategy, depth_limit) :
                  /\ depth_limit_arg = depth_limit
                  /\ call = ConstructorCall(grid, strategy)
                  /\ raised = outcome.raised
                  /\ search = IF outcome.self = None THEN None ELSE outcome.self[1]
                  /\ pc = IF outcome.raised = None THEN "run" ELSE "raised"
    /\ WithoutVisualizer
    /\ current_node = None
    /\ neighbors = <<>>
    /\ depth = 0
    /\ max_depth = 0
    /\ pops = <<>>
    /\ attempts = <<>>

\* the step costs of weighted cells: 2, the 5 and the 9 of the default grid of
\* uniform-cost search
Weights == {2, INCREASED_COST, 9}

\* the cells that are weighted: the three cells next to the start
WeightedCells == {<<1, 0>>, <<0, 1>>, <<1, 1>>}

\* at most two weighted cells, each with any of the weights
WeightedCostMaps ==
    {<<>>} \cup {[cell \in {a, b} |-> IF cell = a THEN wa ELSE wb] :
                    a \in WeightedCells, b \in WeightedCells,
                    wa \in Weights, wb \in Weights}

\* grids with no barrier, the barrier right of the start, or a barrier column
WeightedGrids ==
    {Grid(Width, Height, <<0, 0>>, goal, barriers, costs) :
        goal \in Cells,
        barriers \in {{}, {<<1, 0>>}} \cup {{cell \in Cells : cell[1] = x} : x \in 1..(Width - 1)},
        costs \in WeightedCostMaps}

\* a uniform-cost engine constructed on a weighted grid, run() not yet called
UniformCostConstructed ==
    /\ \E grid \in WeightedGrids : search = UninformedSearch(grid, "UniformCostSearch", None)
    /\ depth_limit_arg = None
    /\ call = None
    /\ raised = None
    /\ WithoutVisualizer
    /\ pc = "run"
    /\ current_node = None
    /\ neighbors = <<>>
    /\ depth = 0
    /\ max_depth = 0
    /\ pops = <<>>
    /\ attempts = <<>>

(***************************************************************************)
(* The steps of run().                                                     *)
(***************************************************************************)
\* run: dispatch on the strategy to search
RunSearch ==
    /\ pc = "run"
    /\ search.strategy # "IterativeDeepeningSearch"
    /\ pc' = "search"
    /\ UNCHANGED <<search, depth_limit_arg, current_node, neighbors, depth, max_depth, pops, attempts>>
    /\ UNCHANGED <<gui_vars, api_vars>>

\* run: dispatch to iterative_deepening_search; depth = 0,
\* max_depth = self.depth_limit or 100
RunIterativeDeepening ==
    /\ pc = "run"
    /\ search.strategy = "IterativeDeepeningSearch"
    /\ depth' = 0
    /\ max_depth' = IF search.depth_limit # None /\ search.depth_limit[1] # 0
                    THEN search.depth_limit[1]
                    ELSE MAX_DEPTH
    /\ pc' = "ids_loop"
    /\ UNCHANGED <<search, depth_limit_arg, current_node, neighbors, pops, attempts>>
    /\ UNCHANGED <<gui_vars, api_vars>>

\* iterative_deepening_search: depth <= max_depth, reset and call search
DeepeningAttempt ==
    /\ pc = "ids_loop"
    /\ DeepeningContinues(depth, max_depth)
    /\ search' = ResetForDepth(search, depth)
    /\ attempts' = Append(attempts, depth)
    /\ pc' = "search"
    /\ UNCHANGED <<depth_limit_arg, current_node, neighbors, depth, max_depth, pops>>
    /\ UNCHANGED <<gui_vars, api_vars>>

\* iterative_deepening_search: depth > max_depth ends the while loop
DeepeningExhausted ==
    /\ pc = "ids_loop"
    /\ ~DeepeningContinues(depth, max_depth)
    /\ pc' = "done"
    /\ UNCHANGED <<search, depth_limit_arg, current_node, neighbors, depth, max_depth, pops, attempts>>
    /\ UNCHANGED <<gui_vars, api_vars>>

\* search: update_frontier(self.start_node)
SearchStart ==
    /\ pc = "search"
    /\ search' = update_frontier(search, search.start_node)
    /\ pops' = <<>>
    /\ pc' = "loop"
    /\ UNCHANGED <<depth_limit_arg, current_node, neighbors, depth, max_depth, attempts>>
    /\ UNCHANGED <<gui_vars, api_vars>>

\* the visualizer is the graphical one: visualizer_method == GUI and
\* isinstance(self.visualizer, GridGUI)
Interactive == visualizer_method = "GUI" /\ visualizer # None

\* search: one pass of the while loop up to the for loop, without a
\* graphical visualizer
Pop ==
    /\ pc = "loop"
    /\ search.frontier.queue # <<>>
    /\ ~Interactive
    /\ \E i \in GetChoices(search.frontier) :
          LET r == PopStep(search, i)
          IN  /\ search' = r.self
              /\ pops' = Append(pops, r.current_node)
              /\ pc' = r.next
              /\ current_node' = IF r.next = "expand" THEN Some(r.current_node) ELSE None
              /\ neighbors' = IF r.next = "expand"
                              THEN get_neighbors(search.grid, r.current_node)
                              ELSE <<>>
    /\ UNCHANGED <<depth_limit_arg, depth, max_depth, attempts>>
    /\ UNCHANGED <<gui_vars, api_vars>>

\* search: one pass of the for loop
VisitNeighbor ==
    /\ pc = "expand"
    /\ neighbors # <<>>
    /\ search' = NeighborStep(search, current_node[1], Head(neighbors))
    /\ neighbors' = Tail(neighbors)
    /\ UNCHANGED <<depth_limit_arg, pc, current_node, depth, max_depth, pops, attempts>>
    /\ UNCHANGED <<gui_vars, api_vars>>

\* search: the for loop is over, back to the while test
EndExpand ==
    /\ pc = "expand"
    /\ neighbors = <<>>
    /\ current_node' = None
    /\ pc' = "loop"
    /\ UNCHANGED <<search, depth_limit_arg, neighbors, depth, max_depth, pops, attempts>>
    /\ UNCHANGED <<gui_vars, api_vars>>

\* search: the frontier is empty, the while loop ends
FrontierEmpty ==
    /\ pc = "loop"
    /\ search.frontier.queue = <<>>
    /\ pc' = "return"
    /\ UNCHANGED <<search, depth_limit_arg, current_node, neighbors, depth, max_depth, pops, attempts>>
    /\ UNCHANGED <<gui_vars, api_vars>>

\* run: search has returned to run, which ends
SearchReturn ==
    /\ pc = "return"
    /\ search.strategy # "IterativeDeepeningSearch"
    /\ pc' = "done"
    /\ UNCHANGED <<search, depth_limit_arg, current_node, neighbors, depth, max_depth, pops, attempts>>
    /\ UNCHANGED <<gui_vars, api_vars>>

\* iterative_deepening_search: no path, depth += 1
DeepeningNext ==
    /\ pc = "return"
    /\ search.strategy = "IterativeDeepeningSearch"
    /\ search.path = <<>>
    /\ depth' = depth + 1
    /\ pc' = "ids_loop"
    /\ UNCHANGED <<search, depth_limit_arg, current_node, neighbors, max_depth, pops, attempts>>
    /\ UNCHANGED <<gui_vars, api_vars>>

\* iterative_deepening_search: a path was found, break
DeepeningFound ==
    /\ pc = "return"
    /\ search.strategy = "IterativeDeepeningSearch"
    /\ search.path # <<>>
    /\ pc' = "done"
    /\ UNCHANGED <<search, depth_limit_arg, current_node, neighbors, depth, max_depth, pops, attempts>>
    /\ UNCHANGED <<gui_vars, api_vars>>

(***************************************************************************)
(* The graphical mode: utils.run_search builds the engine and the GridGUI, *)
(* the main thread runs the Tk main loop, which calls on_canvas_click for  *)
(* each click, and the first click starts run() on a worker thread.        *)
(***************************************************************************)
\* the grids of the graphical runs: no weighted cell; no barrier or a wall
GuiGrids ==
    {grid \in Grids : /\ DOMAIN grid.increased_cost_cells = {}
                      /\ grid.barriers = {} \/ Cardinality(grid.barriers) > 1}

\* the depth_limit arguments of the graphical runs
GuiDepthArgs(strategy) ==
    IF strategy \in {"DepthLimitedSearch", "IterativeDeepeningSearch"}
    THEN {None, Some(1)}
    ELSE {None}

\* run_search in graphical mode: the engine and its GridGUI are built, no
\* thread runs run() yet
GuiConstructed ==
    /\ \E grid \in GuiGrids, strategy \in Strategies :
          /\ depth_limit_arg \in GuiDepthArgs(strategy)
          /\ search = UninformedSearch(grid, strategy, depth_limit_arg)
    /\ visualizer_method = "GUI"
    /\ visualizer = GridGUI
    /\ handler = "mainloop"
    /\ clicks = <<>>
    /\ released = 0
    /\ call = None
    /\ raised = None
    /\ pc = "unstarted"
    /\ current_node = None
    /\ neighbors = <<>>
    /\ depth = 0
    /\ max_depth = 0
    /\ pops = <<>>
    /\ attempts = <<>>

\* the worker thread: not created, running run(), or at the end of run()
WorkerStatus ==
    CASE pc = "unstarted" -> "none"
      [] pc = "done" -> "finished"
      [] OTHER -> "running"

\* on_canvas_click, up to click_event.set(): if search_thread is None, the
\* worker thread is created and started
ClickBegin ==
    /\ handler = "mainloop"
    /\ Interactive
    /\ Len(clicks) < MaxClicks
    /\ LET starts == StartsWorker(visualizer, WorkerStatus)
       IN  /\ clicks' = Append(clicks, [started |-> starts, worker |-> WorkerStatus])
           /\ visualizer' = IF starts
                            THEN [visualizer EXCEPT !.search_thread = Some("Thread")]
                            ELSE visualizer
           /\ pc' = IF starts THEN "run" ELSE pc
    /\ handler' = "set"
    /\ UNCHANGED <<search, depth_limit_arg, current_node, neighbors, depth, max_depth, pops, attempts>>
    /\ UNCHANGED <<visualizer_method, released, api_vars>>

\* on_canvas_click: click_event.set()
ClickSet ==
    /\ handler = "set"
    /\ visualizer' = [visualizer EXCEPT !.click_event = TRUE]
    /\ handler' = "mainloop"
    /\ UNCHANGED <<search, depth_limit_arg, pc, current_node, neighbors, depth, max_depth, pops, attempts>>
    /\ UNCHANGED <<visualizer_method, clicks, released, api_vars>>

\* search with the graphical visualizer: frontier.get() and draw_grid
GuiGet ==
    /\ pc = "loop"
    /\ search.frontier.queue # <<>>
    /\ Interactive
    /\ \E i \in GetChoices(search.frontier) :
          LET r == GetStep(search, i)
          IN  /\ search' = r.self
              /\ current_node' = Some(r.current_node)
              /\ pops' = Append(pops, r.current_node)
    /\ pc' = "clear"
    /\ UNCHANGED <<depth_limit_arg, neighbors, depth, max_depth, attempts>>
    /\ UNCHANGED <<gui_vars, api_vars>>

\* wait_for_click: click_event.clear()
WaitClear ==
    /\ pc = "clear"
    /\ visualizer' = [visualizer EXCEPT !.click_event = FALSE]
    /\ pc' = "wait"
    /\ UNCHANGED <<search, depth_limit_arg, current_node, neighbors, depth, max_depth, pops, attempts>>
    /\ UNCHANGED <<visualizer_method, handler, clicks, released, api_vars>>

\* wait_for_click: click_event.wait() returns once the event is set; search
\* goes on with the rest of the pass of the while loop up to the for loop
WaitReturn ==
    /\ pc = "wait"
    /\ visualizer.click_event
    /\ released' = released + 1
    /\ LET r == TestStep(search, current_node[1])
       IN  /\ search' = r.self
           /\ pc' = r.next
           /\ current_node' = IF r.next = "expand" THEN current_node ELSE None
           /\ neighbors' = IF r.next = "expand"
                           THEN get_neighbors(search.grid, r.current_node)
                           ELSE <<>>
    /\ UNCHANGED <<depth_limit_arg, depth, max_depth, pops, attempts>>
    /\ UNCHANGED <<visualizer_method, visualizer, handler, clicks, api_vars>>

(***************************************************************************)
(* The update operations called from outside search, with arguments of any *)
(* class, on an engine as constructed.                                     *)
(***************************************************************************)
\* the node arguments: nodes of the start cell and of the cell right of it,
\* of cost 0 and 2; None; a tuple of coordinates
NodeArgs ==
    {PyObject("Node", Some(Node(state, None, cost, 0))) :
        state \in {<<0, 0>>, <<1, 0>>}, cost \in {0, 2}}
        \cup {PyNone, PyObject("tuple", <<0, 0>>)}

\* the cost arguments: None (the default of update_frontier), the ints 0 and
\* 1, True, the strs "1" and "", the floats 2.0 and 0.0
CostArgs ==
    {PyNone, PyObject("int", 0), PyObject("int", 1), PyObject("bool", 1),
     PyObject("str", "1"), PyObject("str", ""),
     PyObject("float", 2), PyObject("float", 0)}

\* an engine of any strategy constructed on the grid without barriers and
\* weighted cells, for a caller of its update operations
ConstructedForCalls ==
    /\ \E strategy \in Strategies :
          search = UninformedSearch(Grid(Width, Height, <<0, 0>>, <<Width - 1, Height - 1>>,
                                         {}, <<>>),
                                    strategy, None)
    /\ depth_limit_arg = None
    /\ call = None
    /\ raised = None
    /\ WithoutVisualizer
    /\ pc = "api"
    /\ current_node = None
    /\ neighbors = <<>>
    /\ depth = 0
    /\ max_depth = 0
    /\ pops = <<>>
    /\ attempts = <<>>

\* a caller calls update_frontier(node, cost)
CallUpdateFrontier ==
    /\ pc = "api"
    /\ Len(search.frontier.queue) < MaxPuts
    /\ \E node \in NodeArgs, cost \in CostArgs :
          LET outcome == UpdateFrontierCall(search, node, cost)
          IN  /\ search' = outcome.self
              /\ raised' = outcome.raised
              /\ call' = [op |-> "update_frontier", args |-> <<node, cost>>]
    /\ UNCHANGED <<depth_limit_arg, pc, current_node, neighbors, depth, max_depth, pops, attempts>>
    /\ UNCHANGED gui_vars

\* a caller calls _update_priority_queue(cost, node)
CallUpdatePriorityQueue ==
    /\ pc = "api"
    /\ Len(search.frontier.queue) < MaxPuts
    /\ \E cost \in CostArgs, node \in NodeArgs :
          LET outcome == UpdatePriorityQueueCall(search, cost, node)
          IN  /\ search' = outcome.self
              /\ raised' = outcome.raised
              /\ call' = [op |-> "_update_priority_queue", args |-> <<cost, node>>]
    /\ UNCHANGED <<depth_limit_arg, pc, current_node, neighbors, depth, max_depth, pops, attempts>>
    /\ UNCHANGED gui_vars

Next ==
    \/ RunSearch
    \/ RunIterativeDeepening
    \/ DeepeningAttempt
    \/ DeepeningExhausted
    \/ SearchStart
    \/ Pop
    \/ VisitNeighbor
    \/ EndExpand
    \/ FrontierEmpty
    \/ SearchReturn
    \/ DeepeningNext
    \/ DeepeningFound

Spec == Init /\ [][Next]_vars

\* run() is one sequential thread: it keeps taking its next step
FairSpec == FairInit /\ [][Next]_vars /\ WF_vars(Next)

\* the steps of the main thread and of the worker thread in graphical mode
GuiNext ==
    \/ ClickBegin
    \/ ClickSet
    \/ RunSearch
    \/ RunIterativeDeepening
    \/ DeepeningAttempt
    \/ DeepeningExhausted
    \/ SearchStart
    \/ GuiGet
    \/ WaitClear
    \/ WaitReturn
    \/ VisitNeighbor
    \/ EndExpand
    \/ FrontierEmpty
    \/ SearchReturn
    \/ DeepeningNext
    \/ DeepeningFound

\* the graphical mode: the two threads interleave step by step
GuiSpec == GuiConstructed /\ [][GuiNext]_vars

\* the calls of the update operations
UpdateNext == CallUpdateFrontier \/ CallUpdatePriorityQueue

UpdateSpec == ConstructedForCalls /\ [][UpdateNext]_vars

\* the constructor called with arguments of any class, and run() on the
\* engine if there is one
ConstructSpec == ConstructedFromObjects /\ [][Next]_vars

\* the steps of run() under a strategy other than iterative deepening
SearchNext ==
    \/ RunSearch
    \/ SearchStart
    \/ Pop
    \/ VisitNeighbor
    \/ EndExpand
    \/ FrontierEmpty
    \/ SearchReturn

\* uniform-cost search on the weighted grids
UniformCostSpec == UniformCostConstructed /\ [][SearchNext]_vars

(***************************************************************************)
(* The grid as a graph, for stating the claims.                            *)
(***************************************************************************)
CellsOf(grid) == (0..(grid.width - 1)) \X (0..(grid.height - 1))

Abs(n) == IF n < 0 THEN -n ELSE n

\* two cells are one step apart along one axis
Adjacent(a, b) == Abs(a[1] - b[1]) + Abs(a[2] - b[2]) = 1

\* the cells that paths of at most k steps from the start reach through
\* in-bounds non-barrier cells
RECURSIVE Within(_, _)
Within(grid, k) ==
    IF k = 0
    THEN {grid.start}
    ELSE UNION {{p} \cup {cell \in CellsOf(grid) \ grid.barriers : Adjacent(p, cell)} :
                    p \in Within(grid, k - 1)}

\* the cells that paths from the start reach through in-bounds non-barrier
\* cells: seen are those found so far, edge those found last
RECURSIVE ReachFrom(_, _, _)
ReachFrom(grid, seen, edge) ==
    IF edge = {}
    THEN seen
    ELSE LET found == {cell \in CellsOf(grid) \ (grid.barriers \cup seen) :
                        \E p \in edge : Adjacent(p, cell)}
         IN  ReachFrom(grid, seen \cup found, found)

Reachable(grid) == grid.goal \in ReachFrom(grid, {grid.start}, {grid.start})

\* the least number of steps of a path from the start to the goal
Distance(grid) ==
    CHOOSE k \in 0..Cardinality(CellsOf(grid)) :
        /\ grid.goal \in Within(grid, k)
        /\ k > 0 => grid.goal \notin Within(grid, k - 1)

\* the sum of the step costs of the cells of a path after its first cell
RECURSIVE PathCost(_, _)
PathCost(grid, path) ==
    IF Len(path) <= 1
    THEN 0
    ELSE PathCost(grid, SubSeq(path, 1, Len(path) - 1)) + StepCost(grid, path[Len(path)])

\* a call of search has ended with the frontier empty and the goal not popped
Exhausted ==
    /\ pc \in {"return", "done"}
    /\ search.frontier.queue = <<>>
    /\ search.path = <<>>
    /\ ~search.depth_limit_hit

(***************************************************************************)
(* C1: on a grid whose goal is reachable, run() without a depth_limit      *)
(* argument ends with a non-empty path under each of the five strategies,  *)
(* and no call of search ends with the frontier exhausted.                 *)
(***************************************************************************)
C1_ReachableGoalIsFound ==
    (/\ pc \in {"return", "done"}
     /\ depth_limit_arg = None
     /\ Reachable(search.grid)) =>
        /\ ~Exhausted
        /\ pc = "done" => search.path # <<>>

C1_Witness ==
    /\ pc = "done"
    /\ search.strategy = "IterativeDeepeningSearch"
    /\ depth_limit_arg = None
    /\ search.grid.barriers # {}
    /\ Len(search.path) > 3
    /\ Len(attempts) > 3

(***************************************************************************)
(* C2: when a run has ended with a non-empty path, final_cost is the sum   *)
(* of the step costs of the cells of the path after the start cell.        *)
(***************************************************************************)
C2_FinalCostIsPathCost ==
    (pc \in {"return", "done"} /\ search.path # <<>>) =>
        search.final_cost = PathCost(search.grid, search.path)

C2_Witness ==
    /\ pc = "done"
    /\ search.depth_limit # None
    /\ Len(search.path) > 2
    /\ \E i \in 2..Len(search.path) : search.path[i] \in DOMAIN search.grid.increased_cost_cells
    /\ \E i \in 2..Len(search.path) : search.path[i] \notin DOMAIN search.grid.increased_cost_cells
    /\ search.final_cost = PathCost(search.grid, search.path)

(***************************************************************************)
(* C3: breadth-first search on a grid without weighted cells and with a    *)
(* reachable goal ends with a path of the least number of steps.           *)
(***************************************************************************)
C3_BreadthFirstIsShortest ==
    (/\ pc = "done"
     /\ search.strategy = "BreadthFirstSearch"
     /\ DOMAIN search.grid.increased_cost_cells = {}
     /\ Reachable(search.grid)) =>
        /\ search.path # <<>>
        /\ Len(search.path) - 1 = Distance(search.grid)

C3_Witness ==
    /\ pc = "done"
    /\ search.strategy = "BreadthFirstSearch"
    /\ DOMAIN search.grid.increased_cost_cells = {}
    /\ search.grid.barriers # {}
    /\ Len(search.path) - 1 = 4
    /\ Distance(search.grid) = 4

\* the engine breadth-first search ends in on the given grid
BreadthFirstResult(grid) == SearchResult(UninformedSearch(grid, "BreadthFirstSearch", None))

\* every cell of the grid has the same step cost
UniformCosts(grid) ==
    \A a \in CellsOf(grid), b \in CellsOf(grid) : StepCost(grid, a) = StepCost(grid, b)

(***************************************************************************)
(* C4: on a grid with positive step costs and a reachable goal, the        *)
(* final_cost of uniform-cost search is at most the final_cost of          *)
(* breadth-first search on the same grid, and the two are equal when every *)
(* cell has the same step cost.                                            *)
(***************************************************************************)
C4_UniformCostAtMostBreadthFirst ==
    (/\ pc = "done"
     /\ search.strategy = "UniformCostSearch"
     /\ Reachable(search.grid)) =>
        /\ search.path # <<>>
        /\ search.final_cost <= BreadthFirstResult(search.grid).final_cost
        /\ UniformCosts(search.grid) =>
              search.final_cost = BreadthFirstResult(search.grid).final_cost

C4_Witness ==
    /\ pc = "done"
    /\ search.strategy = "UniformCostSearch"
    /\ search.path # <<>>
    /\ BreadthFirstResult(search.grid).path # <<>>
    /\ search.final_cost < BreadthFirstResult(search.grid).final_cost

(***************************************************************************)
(* C5: a depth-limited search constructed with depth limit L, 0 <= L <=    *)
(* 100, never pops a node of depth greater than L, and when the goal lies  *)
(* more than L steps from the start the run ends with depth_limit_hit true *)
(* and an empty path.                                                      *)
(***************************************************************************)
C5_DepthLimitedStopsAtLimit ==
    (/\ search.strategy = "DepthLimitedSearch"
     /\ depth_limit_arg # None
     /\ depth_limit_arg[1] \in 0..MAX_DEPTH) =>
        /\ \A i \in 1..Len(pops) : pops[i].depth <= depth_limit_arg[1]
        /\ (/\ pc = "done"
            /\ Reachable(search.grid)
            /\ Distance(search.grid) > depth_limit_arg[1]) =>
                /\ search.depth_limit_hit
                /\ search.path = <<>>

\* the limits 0, 1, ..., 100 in this order
AllLimits == [i \in 1..(MAX_DEPTH + 1) |-> i - 1]

\* iterative deepening, built without a depth_limit, on a grid whose goal is
\* unreachable
DeepeningWithoutGoal ==
    /\ search.strategy = "IterativeDeepeningSearch"
    /\ depth_limit_arg = None
    /\ ~Reachable(search.grid)

(***************************************************************************)
(* C6: iterative deepening without a depth_limit argument, on a grid whose *)
(* goal is unreachable, comes to its end having called search once for     *)
(* each limit 0, 1, ..., 100 in turn, with an empty path.                  *)
(***************************************************************************)
C6_DeepeningEndsAfterAllLimits ==
    DeepeningWithoutGoal ~>
        (pc = "done" /\ attempts = AllLimits /\ search.path = <<>>)

C6_Witness ==
    /\ DeepeningWithoutGoal
    /\ search.grid.goal \notin search.grid.barriers
    /\ pc = "done"
    /\ attempts = AllLimits
    /\ search.depth_limit = Some(MAX_DEPTH)
    /\ search.path = <<>>

\* the node at position i of the frontier
FrontierNode(i) == EntryNode(search.frontier, search.frontier.queue[i])

\* the states of the nodes in the frontier
FrontierStates == {FrontierNode(i).state : i \in 1..Len(search.frontier.queue)}

(***************************************************************************)
(* C7: within one call of search no state is popped twice, the frontier    *)
(* never holds a state twice, and it never holds an explored state.        *)
(***************************************************************************)
C7_NoStateTwice ==
    /\ \A i \in 1..Len(pops), j \in 1..Len(pops) :
          i # j => pops[i].state # pops[j].state
    /\ \A i \in 1..Len(search.frontier.queue), j \in 1..Len(search.frontier.queue) :
          i # j => FrontierNode(i).state # FrontierNode(j).state
    /\ \A i \in 1..Len(search.frontier.queue) :
          FrontierNode(i).state \notin search.explored

\* uniform-cost search has gone through the neighbors of a node, one of which
\* was pending in the frontier as the neighbor of another node, and was left so
C7_Witness ==
    /\ search.strategy = "UniformCostSearch"
    /\ DOMAIN search.grid.increased_cost_cells # {}
    /\ pc = "expand"
    /\ neighbors = <<>>
    /\ \E i \in 1..Len(search.frontier.queue) :
          /\ FrontierNode(i).parent # current_node
          /\ Adjacent(FrontierNode(i).state, current_node[1].state)

(***************************************************************************)
(* C8: frontier_set is the set of the states of the nodes in the frontier, *)
(* and no two nodes in the frontier have the same state.                   *)
(***************************************************************************)
C8_MembershipInLockstep ==
    /\ search.frontier_set = FrontierStates
    /\ Cardinality(FrontierStates) = Len(search.frontier.queue)

C8_Witness ==
    /\ search.strategy = "IterativeDeepeningSearch"
    /\ Len(attempts) > 2
    /\ pc = "loop"
    /\ Len(search.frontier.queue) > 1
    /\ search.frontier_set = FrontierStates

(***************************************************************************)
(* C9: the depth limit of the engine is unset or at most 100, and so is    *)
(* the greatest limit of iterative deepening.                              *)
(***************************************************************************)
C9_DepthLimitCapped ==
    /\ search.depth_limit = None \/ search.depth_limit[1] <= MAX_DEPTH
    /\ max_depth <= MAX_DEPTH
    /\ \A i \in 1..Len(attempts) : attempts[i] <= MAX_DEPTH

C9_Witness ==
    /\ depth_limit_arg # None
    /\ depth_limit_arg[1] > MAX_DEPTH
    /\ search.strategy = "DepthLimitedSearch"
    /\ search.depth_limit = Some(MAX_DEPTH)
    /\ pc = "done"

\* the three ways a run ends
GoalFound == search.path # <<>> /\ ~search.depth_limit_hit

DepthLimitHit == search.depth_limit_hit /\ search.path = <<>>

FrontierExhausted ==
    /\ search.frontier.queue = <<>>
    /\ search.path = <<>>
    /\ ~search.depth_limit_hit

ExactlyOneOutcome ==
    Cardinality({o \in {"goal", "limit", "exhausted"} :
                    \/ o = "goal" /\ GoalFound
                    \/ o = "limit" /\ DepthLimitHit
                    \/ o = "exhausted" /\ FrontierExhausted}) = 1

(***************************************************************************)
(* C10: every run comes to its end, and then exactly one of these holds:   *)
(* the goal was found, the depth limit was hit, the frontier is exhausted. *)
(***************************************************************************)
C10_RunEndsInOneOutcome == <>[](pc = "done" /\ ExactlyOneOutcome)

C10_Witness ==
    /\ pc = "done"
    /\ search.strategy = "DepthLimitedSearch"
    /\ search.depth_limit # None
    /\ Len(pops) > 2
    /\ FrontierExhausted
    /\ ExactlyOneOutcome

\* the node get() returned last in this call of search
LastPopped == pops[Len(pops)]

\* the nodes on the parent links of a node, from the node without a parent on
RECURSIVE NodeChain(_)
NodeChain(node) ==
    IF node.parent = None
    THEN <<node>>
    ELSE Append(NodeChain(node.parent[1]), node)

(***************************************************************************)
(* C11: when a call of search has ended with a path, the node popped last  *)
(* is the goal node and the path lists, start first and goal last, the     *)
(* states of the nodes on the parent links from the start node to it; the  *)
(* stored path is what reconstruction from that node yields.               *)
(***************************************************************************)
C11_PathFollowsParents ==
    (pc \in {"return", "done"} /\ search.path # <<>>) =>
        LET chain == NodeChain(LastPopped)
        IN  /\ is_goal_state(search.grid, LastPopped)
            /\ chain[1] = search.start_node
            /\ Len(search.path) = Len(chain)
            /\ \A i \in 1..Len(chain) : search.path[i] = chain[i].state
            /\ search.path[1] = search.grid.start
            /\ search.path[Len(search.path)] = search.grid.goal
            /\ search.path = reconstruct_path(LastPopped)

C11_Witness ==
    /\ pc = "done"
    /\ search.strategy = "UniformCostSearch"
    /\ search.grid.barriers # {}
    /\ Len(search.path) > 4
    /\ LastPopped.parent # None
    /\ search.path[Len(search.path) - 1] = LastPopped.parent[1].state

(***************************************************************************)
(* C12: breadth-first search on its default grid, 5x5 with start (0,0),    *)
(* goal (4,4) and the barrier (2,2), ends with a path of 9 cells and       *)
(* final_cost 8.                                                           *)
(***************************************************************************)
C12_DefaultGridBreadthFirst ==
    (/\ pc = "done"
     /\ search.strategy = "BreadthFirstSearch"
     /\ search.grid = DEFAULT_GRID_BY_STRATEGY_MAP("BreadthFirstSearch")) =>
        /\ Len(search.path) = 9
        /\ search.final_cost = 8

C12_Witness ==
    /\ pc = "done"
    /\ search.strategy = "BreadthFirstSearch"
    /\ search.grid = Grid(5, 5, <<0, 0>>, <<4, 4>>, {<<2, 2>>}, <<>>)
    /\ search.path # <<>>
    /\ search.path[1] = <<0, 0>>
    /\ search.path[Len(search.path)] = <<4, 4>>
    /\ <<2, 2>> \notin {search.path[i] : i \in 1..Len(search.path)}

\* the cells above, right of, below and left of a cell, in this order
FourAround(cell) ==
    << <<cell[1], cell[2] - 1>>, <<cell[1] + 1, cell[2]>>,
       <<cell[1], cell[2] + 1>>, <<cell[1] - 1, cell[2]>> >>

\* the cells of the grid one step from a cell that are not barriers
OpenAround(grid, cell) == {c \in CellsOf(grid) \ grid.barriers : Adjacent(c, cell)}

(***************************************************************************)
(* C13: get_neighbors of the node being expanded returns one node for each *)
(* in-bounds non-barrier cell one step away and no other, in the order up, *)
(* right, down, left; each has the node as parent and the node's cost plus *)
(* the step cost of its cell as cost. When all four cells around the node  *)
(* are in bounds and free, these are exactly up, right, down, left.        *)
(***************************************************************************)
C13_NeighborsInOrder ==
    current_node # None =>
        LET node == current_node[1]
            nbrs == get_neighbors(search.grid, node)
            four == FourAround(node.state)
            open == OpenAround(search.grid, node.state)
            Place(cell) == CHOOSE k \in 1..4 : four[k] = cell
        IN  /\ {nbrs[i].state : i \in 1..Len(nbrs)} = open
            /\ Len(nbrs) = Cardinality(open)
            /\ \A i \in 1..Len(nbrs) :
                  /\ nbrs[i].parent = Some(node)
                  /\ nbrs[i].cost = node.cost + StepCost(search.grid, nbrs[i].state)
            /\ \A i \in 1..Len(nbrs), j \in 1..Len(nbrs) :
                  i < j => Place(nbrs[i].state) < Place(nbrs[j].state)
            /\ Cardinality(open) = 4 => [i \in 1..Len(nbrs) |-> nbrs[i].state] = four

\* a node of positive cost with all four cells around it free, on a grid with
\* a barrier, as its expansion begins
C13_Witness ==
    /\ current_node # None
    /\ search.grid.barriers # {}
    /\ current_node[1].cost > 0
    /\ Len(get_neighbors(search.grid, current_node[1])) = 4
    /\ pc = "expand"
    /\ Len(neighbors) = 4

(***************************************************************************)
(* C17: when a call of search with a depth limit has ended on a popped     *)
(* node: if that node is the goal node, whatever its depth, the call ended *)
(* as goal found, with its path and cost and depth_limit_hit false; and    *)
(* depth_limit_hit is true only if that node is not the goal node and has  *)
(* depth >= the limit, with final_cost its cost, the path left empty, the  *)
(* node not in explored and not the parent of any node in the frontier.    *)
(***************************************************************************)
C17_GoalTestBeforeDepthTest ==
    (/\ pc \in {"return", "done"}
     /\ search.depth_limit # None
     /\ pops # <<>>) =>
        /\ is_goal_state(search.grid, LastPopped) =>
              /\ search.path = reconstruct_path(LastPopped)
              /\ search.path # <<>>
              /\ search.final_cost = LastPopped.cost
              /\ ~search.depth_limit_hit
        /\ search.depth_limit_hit =>
              /\ ~is_goal_state(search.grid, LastPopped)
              /\ LastPopped.depth >= search.depth_limit[1]
              /\ search.final_cost = LastPopped.cost
              /\ search.path = <<>>
              /\ LastPopped.state \notin search.explored
              /\ \A i \in 1..Len(search.frontier.queue) :
                    FrontierNode(i).parent # Some(LastPopped)

\* the goal node was popped at a depth equal to the limit
C17_Witness ==
    /\ pc = "done"
    /\ search.strategy = "DepthLimitedSearch"
    /\ search.depth_limit # None
    /\ pops # <<>>
    /\ is_goal_state(search.grid, LastPopped)
    /\ LastPopped.depth = search.depth_limit[1]
    /\ LastPopped.depth > 1
    /\ search.path # <<>>
    /\ ~search.depth_limit_hit

\* iterative deepening is about to call search for an attempt
AttemptBegins == search.strategy = "IterativeDeepeningSearch" /\ pc = "search"

\* iterative deepening has pushed the start node of an attempt and popped nothing
AttemptBegun ==
    /\ search.strategy = "IterativeDeepeningSearch"
    /\ pc = "loop"
    /\ pops = <<>>

\* what the attempts of iterative deepening start from: the limits so far are
\* 0, 1, 2, ... in this order; search is called with the last of them on an
\* empty frontier, frontier_set, explored and path, final_cost 0 and
\* depth_limit_hit false; and it begins with only the start node, at depth 0,
\* in the frontier
AttemptsStartFresh ==
    /\ search.strategy = "IterativeDeepeningSearch" =>
          /\ \A i \in 1..Len(attempts) : attempts[i] = i - 1
          /\ Len(attempts) <= MAX_DEPTH + 1
    /\ (AttemptBegins \/ AttemptBegun) =>
          /\ search.depth_limit = Some(attempts[Len(attempts)])
          /\ search.explored = {}
          /\ search.path = <<>>
          /\ search.final_cost = 0
          /\ ~search.depth_limit_hit
    /\ AttemptBegins =>
          /\ search.frontier.queue = <<>>
          /\ search.frontier_set = {}
    /\ AttemptBegun =>
          /\ search.frontier.queue = <<Node(search.grid.start, None, 0, 0)>>
          /\ search.frontier_set = {search.grid.start}

\* a step that begins an attempt is taken with no path found so far, and with
\* the next limit in turn, which is at most the greatest limit and the cap
AttemptOnlyWhileNeeded ==
    attempts' # attempts =>
        /\ search.path = <<>>
        /\ attempts' = Append(attempts, Len(attempts))
        /\ Len(attempts) <= max_depth
        /\ Len(attempts) <= MAX_DEPTH

RECURSIVE StepsFrom(_, _, _, _, _)
StepsFrom(grid, cell, seen, edge, k) ==
    IF cell \in edge
    THEN k
    ELSE IF edge = {}
    THEN -1
    ELSE LET found == {c \in CellsOf(grid) \ (grid.barriers \cup seen) :
                        \E p \in edge : Adjacent(p, c)}
         IN  StepsFrom(grid, cell, seen \cup found, found, k + 1)

StepsTo(grid, cell) == StepsFrom(grid, cell, {grid.start}, {grid.start}, 0)

\* a step in which get() returns a node returns the node the discipline of
\* the strategy names, among the nodes pending before the step (the frontier
\* lists them in the order they were put)
PopFollowsDiscipline ==
    Len(pops') = Len(pops) + 1 =>
        LET node == pops'[Len(pops')]
            pending == [i \in 1..Len(search.frontier.queue) |-> FrontierNode(i)]
        IN  /\ pending # <<>>
            /\ search.strategy \in {"DepthFirstSearch", "DepthLimitedSearch",
                                     "IterativeDeepeningSearch"} =>
                  /\ node = pending[Len(pending)]
                  /\ search'.frontier.queue = SubSeq(search.frontier.queue, 1, Len(pending) - 1)
            /\ search.strategy = "BreadthFirstSearch" =>
                  /\ node = pending[1]
                  /\ search'.frontier.queue = Tail(search.frontier.queue)
            /\ search.strategy = "UniformCostSearch" =>
                  /\ \E i \in 1..Len(pending) : node = pending[i]
                  /\ \A i \in 1..Len(pending) : node.cost <= pending[i].cost

\* the nodes popped so far in this call of search came in the order of their
\* costs under uniform-cost search, and the last two in the order of their
\* step distances from the start under breadth-first search
PopsNeverDecrease ==
    /\ search.strategy = "UniformCostSearch" =>
          \A i \in 1..Len(pops), j \in 1..Len(pops) :
              i < j => pops[i].cost <= pops[j].cost
    /\ (search.strategy = "BreadthFirstSearch" /\ Len(pops) > 1) =>
          /\ StepsTo(search.grid, pops[Len(pops) - 1].state) >= 0
          /\ StepsTo(search.grid, pops[Len(pops) - 1].state)
                <= StepsTo(search.grid, LastPopped.state)

(***************************************************************************)
(* C19: get() returns the node put last under depth-first, depth-limited   *)
(* and iterative deepening search, the node put first under breadth-first  *)
(* search, and a node of the lowest cost among those pending under         *)
(* uniform-cost search; the costs of the nodes popped in turn never        *)
(* decrease under uniform-cost search, nor do their step distances from    *)
(* the start under breadth-first search.                                   *)
(***************************************************************************)
C19_FrontierDiscipline == []PopsNeverDecrease /\ [][PopFollowsDiscipline]_vars

\* uniform-cost search has popped a costlier node that was put before a
\* cheaper one it popped earlier
C19_Witness ==
    /\ search.strategy = "UniformCostSearch"
    /\ Len(pops) > 3
    /\ \E i \in 1..Len(pops) :
          /\ i < Len(pops)
          /\ pops[i].cost < LastPopped.cost
          /\ pops[i].parent # None
          /\ LastPopped.parent = Some(search.start_node)

\* the constructor was called with a grid that is no Grid or a strategy that
\* is no member of UninformedSearchStrategy
InvalidArguments ==
    /\ call # None
    /\ call.op = "__init__"
    /\ \/ call.args[1].class # "Grid"
       \/ call.args[2].class # "UninformedSearchStrategy"

(***************************************************************************)
(* C14: the constructor called with a grid that is no Grid raises          *)
(* TypeError, and called with a strategy that is none of the five raises   *)
(* ValueError or TypeError; then there is no engine, nothing was put on a  *)
(* frontier, popped or attempted, and no step of a run can be taken. With  *)
(* a Grid and one of the five strategies it raises nothing.                *)
(***************************************************************************)
C14_InvalidArgumentsFail ==
    /\ InvalidArguments =>
          /\ raised \in {Some("TypeError"), Some("ValueError")}
          /\ call.args[1].class # "Grid" => raised = Some("TypeError")
          /\ search = None
          /\ pc = "raised"
          /\ pops = <<>>
          /\ attempts = <<>>
          /\ ~ENABLED Next
    /\ (call # None /\ call.op = "__init__" /\ ~InvalidArguments) =>
          /\ raised = None
          /\ search # None

\* a Grid with a str for the strategy, refused with ValueError
C14_Witness ==
    /\ InvalidArguments
    /\ call.args[1].class = "Grid"
    /\ call.args[2] = PyObject("str", "bogus")
    /\ raised = Some("ValueError")
    /\ search = None

(***************************************************************************)
(* C15: of the clicks on_canvas_click has taken up, the first started the  *)
(* worker thread and no other did, whether it found the worker running or  *)
(* finished; run() is under way or over if and only if there was a click.  *)
(***************************************************************************)
C15_OneWorkerAtMost ==
    visualizer_method = "GUI" =>
        /\ \A i \in 1..Len(clicks) : clicks[i].started <=> i = 1
        /\ Cardinality({i \in 1..Len(clicks) : clicks[i].started}) <= 1
        /\ visualizer.search_thread # None <=> clicks # <<>>
        /\ pc = "unstarted" <=> clicks = <<>>

\* after the click that started the worker, a click found it running and a
\* later one found it finished
C15_Witness ==
    /\ visualizer_method = "GUI"
    /\ Len(clicks) > 2
    /\ clicks[1].started
    /\ \E i \in 2..Len(clicks), j \in 2..Len(clicks) :
          /\ i < j
          /\ clicks[i].worker = "running"
          /\ clicks[j].worker = "finished"
          /\ ~clicks[i].started
          /\ ~clicks[j].started
    /\ pc = "done"

\* wait_for_click has returned at most once for each click after the first
ReleasedBelowClicks == released > 0 => released <= Len(clicks) - 1

\* a step that leaves the worker suspended in wait_for_click leaves the
\* engine as it is
SuspendedTouchesNothing ==
    (pc = "wait" /\ pc' = "wait") =>
        /\ search'.frontier = search.frontier
        /\ search'.frontier_set = search.frontier_set
        /\ search'.explored = search.explored
        /\ search'.path = search.path
        /\ search'.final_cost = search.final_cost

(***************************************************************************)
(* C16: in graphical mode the number of nodes released past wait_for_click *)
(* never exceeds the number of clicks taken up minus one (the click that   *)
(* starts the worker releases no node), and while the worker is suspended  *)
(* the frontier, frontier_set, explored, path and final_cost do not        *)
(* change.                                                                 *)
(***************************************************************************)
C16_EachReleaseNeedsALaterClick ==
    []ReleasedBelowClicks /\ [][SuspendedTouchesNothing]_vars

\* the arguments of an update call: its node and its cost
NodeOf(c) == IF c.op = "update_frontier" THEN c.args[1] ELSE c.args[2]

CostOf(c) == IF c.op = "update_frontier" THEN c.args[2] ELSE c.args[1]

\* an update call whose node is no Node or whose cost is no int; None for
\* the cost of update_frontier is the cost left out
Malformed(c) ==
    \/ NodeOf(c).class # "Node"
    \/ CostOf(c).class \notin {"int", "bool", "NoneType"}
    \/ c.op = "_update_priority_queue" /\ CostOf(c).class = "NoneType"

\* a call of an update operation with a malformed argument raises TypeError
\* and leaves the frontier and frontier_set as they were
MalformedCallFails ==
    (pc = "api" /\ Malformed(call')) =>
        /\ raised' = Some("TypeError")
        /\ search'.frontier = search.frontier
        /\ search'.frontier_set = search.frontier_set

(***************************************************************************)
(* C20: on the frontier of every strategy, update_frontier and             *)
(* _update_priority_queue called with a node that is no Node, or with a    *)
(* cost that is no int, raise TypeError and leave the frontier and         *)
(* frontier_set unchanged.                                                 *)
(***************************************************************************)
C20_MalformedUpdateFails == [][MalformedCallFails]_vars

(***************************************************************************)
(* C21: every non-empty path of any strategy is a simple walk on the grid: *)
(* it starts at the start cell and ends at the goal cell, two consecutive  *)
(* cells are one step apart along one axis, every cell is within the grid, *)
(* no cell after the first is a barrier and no cell appears twice.         *)
(***************************************************************************)
C21_PathIsSimpleWalk ==
    search.path # <<>> =>
        LET path == search.path
            grid == search.grid
        IN  /\ path[1] = grid.start
            /\ path[Len(path)] = grid.goal
            /\ \A i \in 1..(Len(path) - 1) : Adjacent(path[i], path[i + 1])
            /\ \A i \in 1..Len(path) : path[i] \in CellsOf(grid)
            /\ \A i \in 2..Len(path) : path[i] \notin grid.barriers
            /\ \A i, j \in 1..Len(path) : path[i] = path[j] => i = j

\* a depth-first path that goes around a barrier from a start cell that is
\* not one
C21_Witness ==
    /\ pc = "done"
    /\ search.strategy = "DepthFirstSearch"
    /\ search.grid.barriers = {<<1, 0>>}
    /\ search.grid.goal = <<2, 0>>
    /\ Len(search.path) >= 5

\* a path from a start cell that is a barrier
C21_WitnessBarrierStart ==
    /\ pc = "done"
    /\ search.grid.start \in search.grid.barriers
    /\ Len(search.path) > 1

\* the least of a non-empty set of numbers
Least(numbers) == CHOOSE c \in numbers : \A d \in numbers : c <= d

\* one round of relaxation of the costs found so far, a set of pairs
\* <<cell, cost>>: every open cell next to a cell with a cost gets the least
\* of its own cost and the costs of entering it from such a cell
Relaxed(grid, costs) ==
    LET open == CellsOf(grid) \ grid.barriers
        had == {pair[1] : pair \in costs}
        reached == had \cup {cell \in open : \E p \in had : Adjacent(p, cell)}
        Offers(cell) ==
            {pair[2] : pair \in {q \in costs : q[1] = cell}} \cup
            (IF cell \in open
             THEN {pair[2] + StepCost(grid, cell) :
                      pair \in {q \in costs : Adjacent(q[1], cell)}}
             ELSE {})
    IN  {<<cell, Least(Offers(cell))>> : cell \in reached}

\* the costs after k rounds of relaxation
RECURSIVE RelaxedTimes(_, _, _)
RelaxedTimes(grid, costs, k) ==
    IF k = 0 THEN costs ELSE RelaxedTimes(grid, Relaxed(grid, costs), k - 1)

\* the least total cost of a path from the start to the goal, the goal being
\* reachable: a cheapest path has fewer steps than the grid has cells
CheapestCost(grid) ==
    LET costs == RelaxedTimes(grid, {<<grid.start, 0>>}, Cardinality(CellsOf(grid)))
    IN  Least({pair[2] : pair \in {q \in costs : q[1] = grid.goal}})

\* every cell of the grid has a positive step cost
PositiveCosts(grid) == \A cell \in CellsOf(grid) : StepCost(grid, cell) > 0

(***************************************************************************)
(* C22: on a grid with positive step costs and a reachable goal,           *)
(* uniform-cost search ends with a path and a final_cost that is the least *)
(* total cost of any path from the start to the goal, although a pending   *)
(* or explored state is never put in the frontier again.                   *)
(***************************************************************************)
C22_UniformCostIsCheapest ==
    (/\ pc = "done"
     /\ search.strategy = "UniformCostSearch"
     /\ PositiveCosts(search.grid)
     /\ Reachable(search.grid)) =>
        /\ search.path # <<>>
        /\ search.final_cost = PathCost(search.grid, search.path)
        /\ search.final_cost = CheapestCost(search.grid)

\* the cheapest path is a detour around one weighted cell through another
C22_Witness ==
    /\ pc = "done"
    /\ search.strategy = "UniformCostSearch"
    /\ Cardinality(DOMAIN search.grid.increased_cost_cells) = 2
    /\ search.path # <<>>
    /\ Len(search.path) - 1 > Distance(search.grid)
    /\ search.final_cost > Len(search.path) - 1
    /\ search.final_cost = CheapestCost(search.grid)
    /\ search.final_cost < BreadthFirstResult(search.grid).final_cost

(***************************************************************************)
(* C23: on a grid without weighted cells and with a reachable goal, the    *)
(* path iterative deepening search ends with has the least number of       *)
(* steps, the number of steps of the path of breadth-first search on the   *)
(* same grid, and the depth limit of the attempt that found it is that     *)
(* number of steps.                                                        *)
(***************************************************************************)
C23_DeepeningIsShortest ==
    (/\ pc = "done"
     /\ search.strategy = "IterativeDeepeningSearch"
     /\ DOMAIN search.grid.increased_cost_cells = {}
     /\ Reachable(search.grid)
     /\ search.path # <<>>) =>
        /\ Len(search.path) - 1 = Distance(search.grid)
        /\ Len(search.path) = Len(BreadthFirstResult(search.grid).path)
        /\ search.depth_limit = Some(Len(search.path) - 1)

====
